---- MODULE Spec2Model ----
(***************************************************************************)
(* Model of src/os/shared.rs of bandwhich: get_input, the bootstrap that   *)
(* selects the candidate interfaces, opens a datalink channel on each      *)
(* usable one, classifies the failures when none opened, builds the        *)
(* keyboard stream, the stdout writer, the SIGWINCH bridge and the         *)
(* optional DNS client, and returns the OsInputOutput bundle or an error.  *)
(*                                                                         *)
(* An Option<T> is a sequence of length 0 (None) or 1 (Some).              *)
(***************************************************************************)
EXTENDS Integers, Sequences, FiniteSets, TLC

\* Largest number of interfaces datalink::interfaces() returns in the model.
MaxIfaces == 2

\* Largest number of SIGWINCHs delivered to the process in the model.
MaxSignals == 2

\* config.read_timeout = Some(Duration::new(1, 0))
ReadTimeoutSecs == 1

VARIABLES
    platform,                 \* cfg(target_os) of the build
    directory,                \* what datalink::interfaces() returns
    interface_name,           \* argument: Option<String>
    resolve,                  \* argument: bool
    pc,                       \* position of get_input
    network_interfaces,       \* the candidates (line 89)
    idx,                      \* position of the iterator being consumed
    available_network_frames, \* line 108
    available_interfaces,     \* line 109
    first_pass,               \* what the iteration of lines 110-119 saw
    opens,                    \* every call of datalink::channel, in order
    keyboard_events,          \* line 134
    write_to_stdout,          \* line 135
    signals,                  \* the Signals subscription of sigwinch()
    runtime,                  \* the tokio Runtime of line 138
    resolver,                 \* outcome of dns::Resolver::new
    dns_client,               \* line 137
    result,                   \* what get_input returned
    sig_pending,              \* the subscription holds a SIGWINCH not yet yielded
    sig_closed,               \* Signals::close was called
    cleanup_called,           \* the cleanup closure of line 70 was called
    winch,                    \* position of the on_winch closure of line 61
    arrived,                  \* SIGWINCHs the subscription received
    callbacks,                \* calls of cb() on line 64
    stdin_state,              \* the process's standard input
    kbd_last,                 \* what the last KeyboardEvents::next returned
    kbd_ended                 \* a KeyboardEvents::next returned None

vars == <<platform, directory, interface_name, resolve, pc, network_interfaces,
          idx, available_network_frames, available_interfaces, first_pass,
          opens, keyboard_events, write_to_stdout, signals, runtime, resolver,
          dns_client, result, sig_pending, sig_closed, cleanup_called, winch,
          arrived, callbacks, stdin_state, kbd_last, kbd_ended>>

\* The state of get_input itself, of the signal bridge, of the keyboard.
signal_vars == <<sig_pending, sig_closed, cleanup_called, winch, arrived, callbacks>>

keyboard_vars == <<stdin_state, kbd_last, kbd_ended>>

get_input_vars == <<platform, directory, interface_name, resolve, pc,
                    network_interfaces, idx, available_network_frames,
                    available_interfaces, first_pass, opens, keyboard_events,
                    write_to_stdout, signals, runtime, resolver, dns_client,
                    result>>

(***************************************************************************)
(* The environment: interfaces, platforms, outcomes of the OS calls.       *)
(***************************************************************************)
Names == {"eth0", "lo", "wlan0"}

IpChoices == {<<>>, <<"10.0.0.1">>}

NetworkInterface == [name : Names, up : BOOLEAN, ips : IpChoices]

Platforms == {"linux", "macos", "freebsd"}

RECURSIVE SeqsUpTo(_, _)
SeqsUpTo(S, n) ==
    IF n = 0 THEN {<<>>}
    ELSE LET shorter == SeqsUpTo(S, n - 1)
         IN  shorter \cup {Append(s, x) : s \in {t \in shorter : Len(t) = n - 1}, x \in S}

\* The OS names its interfaces uniquely.
UniqueNames(dir) ==
    \A i, j \in 1..Len(dir) : dir[i].name = dir[j].name => i = j

Directories == {d \in SeqsUpTo(NetworkInterface, MaxIfaces) : UniqueNames(d)}

\* What datalink::channel(interface, config) can give: a channel of some
\* kind, or an io::Error of some kind.
RawOutcomes ==
    { [ok |-> TRUE,  kind |-> "Ethernet"],
      [ok |-> TRUE,  kind |-> "NonEthernet"],
      [ok |-> FALSE, kind |-> "PermissionDenied"],
      [ok |-> FALSE, kind |-> "NotFound"] }

\* Messages of the errors that `?` passes through unchanged.
RuntimeErrorMsg == "Too many open files (os error 24)"
ClientErrorMsg == "Resource temporarily unavailable (os error 11)"

(***************************************************************************)
(* Pure parts of the code.                                                 *)
(***************************************************************************)
None == <<>>
Some(x) == <<x>>

\* get_interface with the comparison of line 54 lost: the first interface.
get_interface_First(dir, name) ==
    IF Len(dir) = 0 THEN None ELSE Some(dir[1])

\* get_interface with the comparison of line 54 inverted.
get_interface_NotEqual(dir, name) ==
    LET hits == {i \in 1..Len(dir) : dir[i].name # name}
    IN  IF hits = {} THEN None
        ELSE Some(dir[CHOOSE i \in hits : \A j \in hits : i <= j])

\* get_interface: the first interface of the directory with that name.
get_interface(dir, name) ==
    LET hits == {i \in 1..Len(dir) : dir[i].name = name}
    IN  IF hits = {} THEN None
        ELSE Some(dir[CHOOSE i \in hits : \A j \in hits : i <= j])

\* The filter of line 103 without its address test, and without its state
\* test.
IsUsable_UpOnly(iface) == iface.up

IsUsable_IpsOnly(iface) == iface.ips # <<>>

\* The filter of line 103 with || in place of &&.
IsUsable_Either(iface) == iface.up \/ iface.ips # <<>>

\* The filter of line 103.
IsUsable(iface) == iface.up /\ iface.ips # <<>>

\* get_datalink_channel taking a channel of any kind (line 43 lost).
get_datalink_channel_AnyChannel(iface, raw, serial) ==
    IF raw.ok
    THEN [ok |-> TRUE,
          rx |-> Some([iface |-> iface.name, serial |-> serial,
                       read_timeout |-> ReadTimeoutSecs]),
          err |-> None]
    ELSE [ok |-> FALSE, rx |-> None,
          err |-> Some([kind |-> raw.kind, msg |-> "os error"])]

\* get_datalink_channel: raw is what datalink::channel returned, serial
\* identifies the call.
get_datalink_channel(iface, raw, serial) ==
    IF raw.ok /\ raw.kind = "Ethernet"
    THEN [ok |-> TRUE,
          rx |-> Some([iface |-> iface.name, serial |-> serial,
                       read_timeout |-> ReadTimeoutSecs]),
          err |-> None]
    ELSE IF raw.ok
    THEN [ok |-> FALSE, rx |-> None,
          err |-> Some([kind |-> "Other", msg |-> "Unsupported interface type"])]
    ELSE [ok |-> FALSE, rx |-> None,
          err |-> Some([kind |-> raw.kind, msg |-> "os error"])]

\* Line 126 taking every failure for a permission failure.
IsPermissionDenied_AnyError(r) == r.err # None

\* Line 126.
IsPermissionDenied(r) == r.err # None /\ r.err[1].kind = "PermissionDenied"

\* The raw string of lines 170-178 with its line breaks and indentation
\* folded to single spaces and its backquotes written as ' (a TLA+ string
\* holds neither).
LinuxEperm ==
    "Insufficient permissions to listen on network interface(s). You can work around this issue like this: * Try running 'bandwhich' with 'sudo' * Build a 'setcap(8)' wrapper for 'bandwhich' with the following rules: 'cap_sys_ptrace,cap_dac_read_search,cap_net_raw,cap_net_admin+ep'"

SudoEperm ==
    "Insufficient permissions to listen on network interface(s). Try running with sudo."

eperm_message(p) == IF p = "linux" THEN LinuxEperm ELSE SudoEperm

NotFoundMessage(name) == "Cannot find interface " \o name

NoInterfaceMessage == "Failed to find any network interface to listen on."

DnsMessage == "Could not initialize the DNS resolver. Are you offline?"

\* The import of lines 14-17.
get_open_sockets(p) == IF p = "linux" THEN "os::linux" ELSE "os::lsof"

Pending == [kind |-> "Pending", msg |-> "", bundle |-> None]
Err(m) == [kind |-> "Err", msg |-> m, bundle |-> None]
Panic == [kind |-> "Panic", msg |-> "", bundle |-> None]
Ok(b) == [kind |-> "Ok", msg |-> "", bundle |-> Some(b)]

(***************************************************************************)
(* get_input, step by step.                                                *)
(***************************************************************************)
Init ==
    /\ platform \in Platforms
    /\ directory \in Directories
    /\ interface_name \in {None} \cup {Some(n) : n \in Names}
    /\ resolve \in BOOLEAN
    /\ pc = "select"
    /\ network_interfaces = <<>>
    /\ idx = 1
    /\ available_network_frames = <<>>
    /\ available_interfaces = <<>>
    /\ first_pass = <<>>
    /\ opens = <<>>
    /\ keyboard_events = FALSE
    /\ write_to_stdout = FALSE
    /\ signals = "none"
    /\ runtime = "none"
    /\ resolver = "none"
    /\ dns_client = None
    /\ result = Pending
    /\ sig_pending = FALSE
    /\ sig_closed = FALSE
    /\ cleanup_called = FALSE
    /\ winch = "idle"
    /\ arrived = 0
    /\ callbacks = 0
    /\ stdin_state = "open"
    /\ kbd_last = "never"
    /\ kbd_ended = FALSE

\* Lines 89-99 when the named interface is missing: bail.
InterfaceNotFound ==
    /\ pc = "select"
    /\ interface_name # None
    /\ get_interface(directory, interface_name[1]) = None
    /\ result' = Err(NotFoundMessage(interface_name[1]))
    /\ pc' = "done"
    /\ UNCHANGED <<signal_vars, keyboard_vars>>
    /\ UNCHANGED <<platform, directory, interface_name, resolve,
                   network_interfaces, idx, available_network_frames,
                   available_interfaces, first_pass, opens, keyboard_events,
                   write_to_stdout, signals, runtime, resolver, dns_client>>

\* Lines 89-99 otherwise: the named interface, or all of them.
SelectInterfaces ==
    /\ pc = "select"
    /\ \/ /\ interface_name # None
          /\ get_interface(directory, interface_name[1]) # None
          /\ network_interfaces' = get_interface(directory, interface_name[1])
       \/ /\ interface_name = None
          /\ network_interfaces' = directory
    /\ idx' = 1
    /\ pc' = "open"
    /\ UNCHANGED <<signal_vars, keyboard_vars>>
    /\ UNCHANGED <<platform, directory, interface_name, resolve,
                   available_network_frames, available_interfaces, first_pass,
                   opens, keyboard_events, write_to_stdout, signals, runtime,
                   resolver, dns_client, result>>

\* Lines 110-119 pushing the interface of every open, failed ones too.
PushAvailable_Every(iface, r) ==
    /\ available_interfaces' = Append(available_interfaces, iface)
    /\ IF r.ok
       THEN available_network_frames' = Append(available_network_frames, r.rx[1])
       ELSE UNCHANGED available_network_frames

\* Lines 110-119: the filter_map keeps the channel of an open that
\* succeeded, and the loop body pushes the interface and the channel.
PushAvailable(iface, r) ==
    IF r.ok
    THEN /\ available_interfaces' = Append(available_interfaces, iface)
         /\ available_network_frames' = Append(available_network_frames, r.rx[1])
    ELSE UNCHANGED <<available_network_frames, available_interfaces>>

\* Lines 101-119, one element of the lazy filter/map consumed by the loop of
\* line 110: the filter drops it, or the map opens a channel on it and the
\* loop keeps the channel or drops the failure.
OpenNext ==
    /\ pc = "open"
    /\ idx <= Len(network_interfaces)
    /\ LET iface == network_interfaces[idx]
       IN  IF ~IsUsable(iface)
           THEN UNCHANGED <<opens, first_pass, available_network_frames,
                            available_interfaces>>
           ELSE \E raw \in RawOutcomes :
                  LET r == get_datalink_channel(iface, raw, Len(opens) + 1)
                  IN  /\ opens' = Append(opens, [iface |-> iface.name, raw |-> raw])
                      /\ first_pass' = Append(first_pass, [iface |-> iface.name, res |-> r])
                      /\ PushAvailable(iface, r)
    /\ idx' = idx + 1
    /\ UNCHANGED <<signal_vars, keyboard_vars>>
    /\ UNCHANGED <<platform, directory, interface_name, resolve, pc,
                   network_interfaces, keyboard_events, write_to_stdout,
                   signals, runtime, resolver, dns_client, result>>

\* Line 123 without the is_empty test.
AfterOpen_NoCheck(frames) == "construct"

\* Line 123 with the test inverted.
AfterOpen_Inverted(frames) == IF frames # <<>> THEN "classify" ELSE "construct"

\* Lines 134-136 moved after the DNS bootstrap.
AfterOpen_DnsFirst(frames) == IF frames = <<>> THEN "classify" ELSE "dns"

\* Line 123: where get_input goes on after the loop.
AfterOpen(frames) == IF frames = <<>> THEN "classify" ELSE "construct"

\* Line 123: the loop of line 110 is over.
CheckAvailable ==
    /\ pc = "open"
    /\ idx > Len(network_interfaces)
    /\ pc' = AfterOpen(available_network_frames)
    /\ idx' = 1
    /\ UNCHANGED <<signal_vars, keyboard_vars>>
    /\ UNCHANGED <<platform, directory, interface_name, resolve,
                   network_interfaces, available_network_frames,
                   available_interfaces, first_pass, opens, keyboard_events,
                   write_to_stdout, signals, runtime, resolver, dns_client,
                   result>>

\* Lines 124-130, one element: network_frames is the lazy iterator of line
\* 101 itself (line 107 consumed a clone of it), so consuming it runs the
\* filter and the map, get_datalink_channel included, again.
ClassifyNext ==
    /\ pc = "classify"
    /\ idx <= Len(network_interfaces)
    /\ LET iface == network_interfaces[idx]
       IN  IF ~IsUsable(iface)
           THEN /\ idx' = idx + 1
                /\ UNCHANGED <<opens, result, pc>>
           ELSE \E raw \in RawOutcomes :
                  LET r == get_datalink_channel(iface, raw, Len(opens) + 1)
                  IN  /\ opens' = Append(opens, [iface |-> iface.name, raw |-> raw])
                      /\ IF IsPermissionDenied(r)
                         THEN /\ result' = Err(eperm_message(platform))
                              /\ pc' = "done"
                              /\ idx' = idx
                         ELSE /\ idx' = idx + 1
                              /\ UNCHANGED <<result, pc>>
    /\ UNCHANGED <<signal_vars, keyboard_vars>>
    /\ UNCHANGED <<platform, directory, interface_name, resolve,
                   network_interfaces, available_network_frames,
                   available_interfaces, first_pass, keyboard_events,
                   write_to_stdout, signals, runtime, resolver, dns_client>>

\* Line 131.
NoInterface ==
    /\ pc = "classify"
    /\ idx > Len(network_interfaces)
    /\ result' = Err(NoInterfaceMessage)
    /\ pc' = "done"
    /\ UNCHANGED <<signal_vars, keyboard_vars>>
    /\ UNCHANGED <<platform, directory, interface_name, resolve,
                   network_interfaces, idx, available_network_frames,
                   available_interfaces, first_pass, opens, keyboard_events,
                   write_to_stdout, signals, runtime, resolver, dns_client>>

\* Lines 134-135.
ConstructIo ==
    /\ pc = "construct"
    /\ keyboard_events' = TRUE
    /\ write_to_stdout' = TRUE
    /\ pc' = "sigwinch"
    /\ UNCHANGED <<signal_vars, keyboard_vars>>
    /\ UNCHANGED <<platform, directory, interface_name, resolve,
                   network_interfaces, idx, available_network_frames,
                   available_interfaces, first_pass, opens, signals, runtime,
                   resolver, dns_client, result>>

\* Line 136, sigwinch(): Signals::new(..).unwrap() subscribes or panics.
Sigwinch ==
    /\ pc = "sigwinch"
    /\ \/ /\ signals' = "subscribed"
          /\ pc' = "dns"
          /\ UNCHANGED result
       \/ /\ signals' = "failed"
          /\ result' = Panic
          /\ pc' = "done"
    /\ UNCHANGED <<signal_vars, keyboard_vars>>
    /\ UNCHANGED <<platform, directory, interface_name, resolve,
                   network_interfaces, idx, available_network_frames,
                   available_interfaces, first_pass, opens, keyboard_events,
                   write_to_stdout, runtime, resolver, dns_client>>

\* Lines 137, 145-147: no resolution.
NoDns ==
    /\ pc = "dns"
    /\ ~resolve
    /\ dns_client' = None
    /\ pc' = "assemble"
    /\ UNCHANGED <<signal_vars, keyboard_vars>>
    /\ UNCHANGED <<platform, directory, interface_name, resolve,
                   network_interfaces, idx, available_network_frames,
                   available_interfaces, first_pass, opens, keyboard_events,
                   write_to_stdout, signals, runtime, resolver, result>>

\* Line 138 reached whatever resolve is.
RuntimeNew_Always ==
    /\ pc = "dns"
    /\ \/ /\ runtime' = "started"
          /\ pc' = "resolver"
          /\ UNCHANGED result
       \/ /\ runtime' = "failed"
          /\ result' = Err(RuntimeErrorMsg)
          /\ pc' = "done"
    /\ UNCHANGED <<signal_vars, keyboard_vars>>
    /\ UNCHANGED <<platform, directory, interface_name, resolve,
                   network_interfaces, idx, available_network_frames,
                   available_interfaces, first_pass, opens, keyboard_events,
                   write_to_stdout, signals, resolver, dns_client>>

\* Line 138: Runtime::new()?
RuntimeNew ==
    /\ pc = "dns"
    /\ resolve
    /\ \/ /\ runtime' = "started"
          /\ pc' = "resolver"
          /\ UNCHANGED result
       \/ /\ runtime' = "failed"
          /\ result' = Err(RuntimeErrorMsg)
          /\ pc' = "done"
    /\ UNCHANGED <<signal_vars, keyboard_vars>>
    /\ UNCHANGED <<platform, directory, interface_name, resolve,
                   network_interfaces, idx, available_network_frames,
                   available_interfaces, first_pass, opens, keyboard_events,
                   write_to_stdout, signals, resolver, dns_client>>

\* Lines 139-142 with `?` in place of the match: the resolver's own error.
ResolverNew_Propagate ==
    /\ pc = "resolver"
    /\ \/ /\ resolver' = "built"
          /\ pc' = "client"
          /\ UNCHANGED result
       \/ /\ resolver' = "failed"
          /\ result' = Err("io error: network unreachable")
          /\ pc' = "done"
    /\ UNCHANGED <<signal_vars, keyboard_vars>>
    /\ UNCHANGED <<platform, directory, interface_name, resolve,
                   network_interfaces, idx, available_network_frames,
                   available_interfaces, first_pass, opens, keyboard_events,
                   write_to_stdout, signals, runtime, dns_client>>

\* Lines 139-142 going on after a failed construction.
ResolverNew_Continue ==
    /\ pc = "resolver"
    /\ \E built \in {"built", "failed"} : resolver' = built
    /\ pc' = "client"
    /\ UNCHANGED <<signal_vars, keyboard_vars>>
    /\ UNCHANGED <<platform, directory, interface_name, resolve,
                   network_interfaces, idx, available_network_frames,
                   available_interfaces, first_pass, opens, keyboard_events,
                   write_to_stdout, signals, runtime, dns_client, result>>

\* Lines 139-142: runtime.block_on(dns::Resolver::new(..)).
ResolverNew ==
    /\ pc = "resolver"
    /\ \/ /\ resolver' = "built"
          /\ pc' = "client"
          /\ UNCHANGED result
       \/ /\ resolver' = "failed"
          /\ result' = Err(DnsMessage)
          /\ pc' = "done"
    /\ UNCHANGED <<signal_vars, keyboard_vars>>
    /\ UNCHANGED <<platform, directory, interface_name, resolve,
                   network_interfaces, idx, available_network_frames,
                   available_interfaces, first_pass, opens, keyboard_events,
                   write_to_stdout, signals, runtime, dns_client>>

\* Lines 143-144: dns::Client::new(resolver, runtime)?
ClientNew ==
    /\ pc = "client"
    /\ \/ /\ dns_client' = Some([resolver |-> resolver, runtime |-> runtime])
          /\ pc' = "assemble"
          /\ UNCHANGED result
       \/ /\ result' = Err(ClientErrorMsg)
          /\ pc' = "done"
          /\ UNCHANGED dns_client
    /\ UNCHANGED <<signal_vars, keyboard_vars>>
    /\ UNCHANGED <<platform, directory, interface_name, resolve,
                   network_interfaces, idx, available_network_frames,
                   available_interfaces, first_pass, opens, keyboard_events,
                   write_to_stdout, signals, runtime, resolver>>

\* Lines 149-158.
Assemble ==
    /\ pc = "assemble"
    /\ result' = Ok([network_interfaces |-> available_interfaces,
                     network_frames |-> available_network_frames,
                     get_open_sockets |-> get_open_sockets(platform),
                     keyboard_events |-> keyboard_events,
                     dns_client |-> dns_client,
                     on_winch |-> signals,
                     cleanup |-> signals,
                     write_to_stdout |-> write_to_stdout])
    /\ pc' = "done"
    /\ UNCHANGED <<signal_vars, keyboard_vars>>
    /\ UNCHANGED <<platform, directory, interface_name, resolve,
                   network_interfaces, idx, available_network_frames,
                   available_interfaces, first_pass, opens, keyboard_events,
                   write_to_stdout, signals, runtime, resolver, dns_client>>

Next ==
    \/ InterfaceNotFound
    \/ SelectInterfaces
    \/ OpenNext
    \/ CheckAvailable
    \/ ClassifyNext
    \/ NoInterface
    \/ ConstructIo
    \/ Sigwinch
    \/ NoDns
    \/ RuntimeNew
    \/ ResolverNew
    \/ ClientNew
    \/ Assemble

Spec == Init /\ [][Next]_vars

(***************************************************************************)
(* The signal bridge of sigwinch(), lines 57-74, in the hands of the       *)
(* caller that got the bundle.  Signals is the subscription of the         *)
(* signal_hook crate: it holds one pending flag per signal kind, so        *)
(* SIGWINCHs that arrive while one is pending are merged, forever() blocks *)
(* until a signal is pending or the subscription is closed, and after      *)
(* close() a pending signal may or may not still be yielded.               *)
(***************************************************************************)

\* A few calls of get_input, enough for every exit of it.
BundleDirectories ==
    { <<>>,
      <<[name |-> "eth0", up |-> TRUE, ips |-> <<"10.0.0.1">>]>>,
      <<[name |-> "eth0", up |-> FALSE, ips |-> <<"10.0.0.1">>]>> }

InitBundle ==
    /\ Init
    /\ platform = "linux"
    /\ directory \in BundleDirectories
    /\ interface_name \in {None, Some("eth0")}

\* The OS delivers a SIGWINCH to the process; the subscription records it.
SignalArrives ==
    /\ signals = "subscribed"
    /\ ~sig_closed
    /\ arrived < MaxSignals
    /\ arrived' = arrived + 1
    /\ sig_pending' = TRUE
    /\ UNCHANGED <<sig_closed, cleanup_called, winch, callbacks>>
    /\ UNCHANGED <<get_input_vars, keyboard_vars>>

\* Line 61: the caller invokes on_winch(cb); line 62 starts signals.forever().
CallOnWinch ==
    /\ result.kind = "Ok"
    /\ winch \in {"idle", "returned"}
    /\ winch' = "waiting"
    /\ UNCHANGED <<sig_pending, sig_closed, cleanup_called, arrived, callbacks>>
    /\ UNCHANGED <<get_input_vars, keyboard_vars>>

\* Lines 62-64 with the callback left out: the signal is yielded and dropped.
TakeSignal_NoCallback ==
    /\ winch = "waiting"
    /\ sig_pending
    /\ sig_pending' = FALSE
    /\ UNCHANGED <<winch, callbacks>>
    /\ UNCHANGED <<sig_closed, cleanup_called, arrived>>
    /\ UNCHANGED <<get_input_vars, keyboard_vars>>

\* Lines 62-64: forever() yields the pending SIGWINCH and cb() is called.
TakeSignal ==
    /\ winch = "waiting"
    /\ sig_pending
    /\ sig_pending' = FALSE
    /\ winch' = "callback"
    /\ callbacks' = callbacks + 1
    /\ UNCHANGED <<sig_closed, cleanup_called, arrived>>
    /\ UNCHANGED <<get_input_vars, keyboard_vars>>

\* Line 64: cb() returns and the loop asks forever() for the next signal.
CallbackReturns ==
    /\ winch = "callback"
    /\ winch' = "waiting"
    /\ UNCHANGED <<sig_pending, sig_closed, cleanup_called, arrived, callbacks>>
    /\ UNCHANGED <<get_input_vars, keyboard_vars>>

\* Lines 62-67: forever() ends because the subscription is closed, and
\* on_winch returns.
WinchReturns ==
    /\ winch = "waiting"
    /\ sig_closed
    /\ winch' = "returned"
    /\ sig_pending' = FALSE
    /\ UNCHANGED <<sig_closed, cleanup_called, arrived, callbacks>>
    /\ UNCHANGED <<get_input_vars, keyboard_vars>>

\* Lines 70-72 closing nothing.
Cleanup_NoClose ==
    /\ result.kind = "Ok"
    /\ cleanup_called' = TRUE
    /\ UNCHANGED <<sig_pending, sig_closed, winch, arrived, callbacks>>
    /\ UNCHANGED <<get_input_vars, keyboard_vars>>

\* Lines 70-72: the caller invokes cleanup(), which closes the subscription
\* that on_winch's clone shares.
Cleanup ==
    /\ result.kind = "Ok"
    /\ cleanup_called' = TRUE
    /\ sig_closed' = TRUE
    /\ UNCHANGED <<sig_pending, winch, arrived, callbacks>>
    /\ UNCHANGED <<get_input_vars, keyboard_vars>>

\* The steps of the thread that runs on_winch.
OnWinchThread == TakeSignal \/ CallbackReturns \/ WinchReturns

NextSignal ==
    \/ Next
    \/ SignalArrives
    \/ CallOnWinch
    \/ TakeSignal
    \/ CallbackReturns
    \/ WinchReturns
    \/ Cleanup

\* The thread inside on_winch keeps running.
SpecSignal == InitBundle /\ [][NextSignal]_vars /\ WF_vars(OnWinchThread)

(***************************************************************************)
(* KeyboardEvents, lines 23-33, in the hands of the caller.                *)
(***************************************************************************)

\* What stdin().events().next() gives: an event, a read or parse error
\* (which leaves the stream open), or the end of a closed stream.
StdinReads(st) ==
    IF st = "open" THEN {"SomeOk", "SomeErr"} ELSE {"None", "SomeErr"}

\* The match of lines 28-31.
KeyboardEventsNext(read) == IF read = "SomeOk" THEN "Some" ELSE "None"

\* The other end of standard input is closed.
StdinCloses ==
    /\ stdin_state = "open"
    /\ stdin_state' = "closed"
    /\ UNCHANGED <<kbd_last, kbd_ended>>
    /\ UNCHANGED <<get_input_vars, signal_vars>>

\* Lines 27-32: one call of KeyboardEvents::next.
KeyboardNext ==
    /\ result.kind = "Ok"
    /\ \E read \in StdinReads(stdin_state) :
          /\ kbd_last' = KeyboardEventsNext(read)
          /\ kbd_ended' = (kbd_ended \/ KeyboardEventsNext(read) = "None")
    /\ UNCHANGED stdin_state
    /\ UNCHANGED <<get_input_vars, signal_vars>>

NextKeyboard ==
    \/ Next
    \/ StdinCloses
    \/ KeyboardNext

SpecKeyboard == InitBundle /\ [][NextKeyboard]_vars

(***************************************************************************)
(* Vocabulary of the properties, in terms of the arguments, the directory, *)
(* the log of datalink::channel calls and the value returned.              *)
(***************************************************************************)
Done == pc = "done"

\* The directory holds no interface with the requested name.
NameMissing ==
    /\ interface_name # None
    /\ \A i \in 1..Len(directory) : directory[i].name # interface_name[1]

\* The candidates of the call: the named interface, or the whole directory.
Candidates ==
    LET Named(iface) == iface.name = interface_name[1]
    IN  IF interface_name = None THEN directory ELSE SelectSeq(directory, Named)

UpWithAddress(iface) == iface.up = TRUE /\ Len(iface.ips) >= 1

PermissionMessage ==
    IF platform = "linux" THEN LinuxEperm ELSE SudoEperm

EthernetOpen(o) == o.raw.ok /\ o.raw.kind = "Ethernet"

PermissionFailure(o) == ~o.raw.ok /\ o.raw.kind = "PermissionDenied"

\* The calls of datalink::channel made by the loop of lines 124-130.
ClassifyOpens == SubSeq(opens, Len(first_pass) + 1, Len(opens))

\* get_input got past the selection and the loop of line 110 kept no channel.
ZeroChannels == Done /\ ~NameMissing /\ available_network_frames = <<>>

\* C1: when the directory holds no interface named X, get_input(Some(X),
\* resolve) ends, for either resolve, with the error "Cannot find interface X"
\* and no bundle, and does nothing else before.
C1_InterfaceNotFound ==
    NameMissing =>
        /\ pc \in {"select", "done"}
        /\ Done => /\ result.kind = "Err"
                   /\ result.msg = "Cannot find interface " \o interface_name[1]
                   /\ result.bundle = None

C1_Witness ==
    /\ Done
    /\ interface_name = Some("wlan0")
    /\ Len(directory) = 2
    /\ NameMissing
    /\ resolve
    /\ result.msg = "Cannot find interface wlan0"

\* C2: when get_input kept zero channels, the failures of the opens of the
\* first pass (lines 101-119) decide the error: the permission message if one
\* of them is permission-denied, the generic message otherwise.
C2_RecordedFailuresDecide ==
    ZeroChannels =>
        IF \E k \in 1..Len(first_pass) : IsPermissionDenied(first_pass[k].res)
        THEN result = Err(PermissionMessage)
        ELSE result = Err(NoInterfaceMessage)

\* C3 as stated: when no open of the call succeeded, all failures being
\* permission-denied gives the permission message, and any failure of another
\* kind gives the generic message.
C3_EveryFailurePermission ==
    (/\ ZeroChannels
     /\ opens # <<>>
     /\ \A k \in 1..Len(opens) : ~EthernetOpen(opens[k])) =>
        /\ (\A k \in 1..Len(opens) : PermissionFailure(opens[k]))
              => result = Err(PermissionMessage)
        /\ (\E k \in 1..Len(opens) : ~PermissionFailure(opens[k]))
              => result = Err(NoInterfaceMessage)

\* C3 amended: when no open of the call succeeded, all failures being
\* permission-denied gives the permission message, none being
\* permission-denied gives the generic message, and in general the result is
\* the permission message exactly when the loop of lines 124-130 meets a
\* permission-denied failure, whatever the kinds of the other failures.
C3_AnyFailurePermission ==
    (/\ ZeroChannels
     /\ \A k \in 1..Len(opens) : ~EthernetOpen(opens[k])) =>
        /\ (opens # <<>> /\ \A k \in 1..Len(opens) : PermissionFailure(opens[k]))
              => result = Err(PermissionMessage)
        /\ (\A k \in 1..Len(opens) : ~PermissionFailure(opens[k]))
              => result = Err(NoInterfaceMessage)
        /\ IF \E k \in 1..Len(ClassifyOpens) : PermissionFailure(ClassifyOpens[k])
           THEN result = Err(PermissionMessage)
           ELSE result = Err(NoInterfaceMessage)

C3_Witness ==
    /\ ZeroChannels
    /\ \A k \in 1..Len(opens) : ~EthernetOpen(opens[k])
    /\ Len(ClassifyOpens) = 2
    /\ ClassifyOpens[1].raw = [ok |-> TRUE, kind |-> "NonEthernet"]
    /\ PermissionFailure(ClassifyOpens[2])
    /\ result = Err(PermissionMessage)

\* C4: when every candidate (all interfaces, or the named one) is down or has
\* no address, no channel open is attempted and get_input ends with the
\* generic error, not the permission message.
C4_NoUsableCandidate ==
    (/\ ~NameMissing
     /\ \A i \in 1..Len(Candidates) : ~UpWithAddress(Candidates[i])) =>
        /\ opens = <<>>
        /\ pc \in {"select", "open", "classify", "done"}
        /\ Done => /\ result = Err(NoInterfaceMessage)
                   /\ result.msg # PermissionMessage

C4_Witness ==
    /\ Done
    /\ interface_name = None
    /\ Len(directory) = 2
    /\ ~directory[1].up /\ directory[1].ips # <<>>
    /\ directory[2].up /\ directory[2].ips = <<>>
    /\ result = Err(NoInterfaceMessage)

\* The bundle of a successful call.
Returned == result.kind = "Ok"

Bundle == result.bundle[1]

\* C5: in every bundle returned, network_interfaces and network_frames have
\* the same length and network_frames[i] is the channel that a successful
\* call of datalink::channel opened on network_interfaces[i].
C5_PairedSequences ==
    Returned =>
        /\ Len(Bundle.network_interfaces) = Len(Bundle.network_frames)
        /\ \A i \in 1..Len(Bundle.network_frames) :
              LET ch == Bundle.network_frames[i]
              IN  /\ i <= Len(Bundle.network_interfaces)
                  /\ ch.iface = Bundle.network_interfaces[i].name
                  /\ ch.serial \in 1..Len(opens)
                  /\ opens[ch.serial].iface = Bundle.network_interfaces[i].name
                  /\ EthernetOpen(opens[ch.serial])

C5_Witness ==
    /\ Returned
    /\ Len(Bundle.network_frames) = 2
    /\ Bundle.network_frames[1].iface = "lo"
    /\ Bundle.network_frames[2].iface = "eth0"

\* C6: a returned bundle never has an empty interface sequence or an empty
\* channel sequence.
C6_NeverEmpty ==
    Returned =>
        /\ Bundle.network_interfaces # <<>>
        /\ Bundle.network_frames # <<>>

C6_Witness ==
    /\ Returned
    /\ Len(Bundle.network_frames) = 1
    /\ Len(opens) = 2
    /\ PermissionFailure(opens[1])
    /\ ~resolve

\* C7: the interfaces of a returned bundle are exactly the candidates that
\* are up, have an address and whose open succeeded, in directory order;
\* the candidates whose open failed are left out and the call succeeds.
C7_DiscoveryOrder ==
    Returned =>
        LET Kept(iface) ==
                /\ UpWithAddress(iface)
                /\ \E k \in 1..Len(opens) :
                      opens[k].iface = iface.name /\ EthernetOpen(opens[k])
        IN  Bundle.network_interfaces = SelectSeq(Candidates, Kept)

C7_Witness ==
    /\ Returned
    /\ interface_name = None
    /\ Len(directory) = 2
    /\ directory[1].name = "wlan0"
    /\ directory[2].name = "eth0"
    /\ Bundle.network_interfaces = directory

\* C8: within one call of get_input, datalink::channel is called at most once
\* for each interface.
C8_OneOpenPerCandidate ==
    \A i, j \in 1..Len(opens) : opens[i].iface = opens[j].iface => i = j

\* The texts of the documented errors.
DocumentedMessages ==
    {"Cannot find interface " \o n : n \in Names}
        \cup {NoInterfaceMessage, LinuxEperm, SudoEperm, DnsMessage}

\* C9 as stated: every failure of get_input is an error value carrying one of
\* the documented texts, with no bundle.
C9_DocumentedFailures ==
    (Done /\ ~Returned) =>
        /\ result.kind = "Err"
        /\ result.msg \in DocumentedMessages
        /\ result.bundle = None

\* C9 amended: a failure to find the interface, to open any channel or to
\* build the resolver is an error value carrying one of the documented texts;
\* a failure to start the runtime or to build the DNS client is an error value
\* carrying the message of the underlying error; a failure to subscribe to
\* SIGWINCH is a panic; and a failed call yields no bundle.
C9_FailureValues ==
    /\ ~Done => result = Pending
    /\ (Done /\ ~Returned) =>
        /\ result.bundle = None
        /\ CASE signals = "failed" -> result.kind = "Panic"
             [] runtime = "failed" ->
                    /\ result.kind = "Err"
                    /\ result.msg = RuntimeErrorMsg
                    /\ result.msg \notin DocumentedMessages
             [] resolver = "built" ->
                    /\ result.kind = "Err"
                    /\ result.msg = ClientErrorMsg
                    /\ result.msg \notin DocumentedMessages
             [] OTHER ->
                    /\ result.kind = "Err"
                    /\ result.msg \in DocumentedMessages

C9_Witness ==
    /\ Done
    /\ signals = "failed"
    /\ result.kind = "Panic"
    /\ available_network_frames # <<>>

\* C10: with resolve false the runtime is never started, the resolver never
\* built, and a returned bundle has dns_client = None; with resolve true a
\* returned bundle has a dns_client.
C10_DnsOnlyOnResolve ==
    /\ ~resolve =>
        /\ runtime = "none"
        /\ resolver = "none"
        /\ Returned => Bundle.dns_client = None
    /\ (resolve /\ Returned) =>
        /\ Bundle.dns_client # None
        /\ Bundle.dns_client[1].resolver = "built"

C10_Witness ==
    /\ Returned
    /\ ~resolve
    /\ Bundle.dns_client = None
    /\ Len(Bundle.network_frames) = 2

\* C11: with resolve true and at least one channel opened, a failing resolver
\* construction ends get_input at once with the error "Could not initialize
\* the DNS resolver. Are you offline?", and neither a bundle nor a DNS client
\* is produced.
C11_DnsUnavailable ==
    resolver = "failed" =>
        /\ resolve
        /\ available_network_frames # <<>>
        /\ Done
        /\ result.kind = "Err"
        /\ result.msg = "Could not initialize the DNS resolver. Are you offline?"
        /\ result.bundle = None
        /\ dns_client = None

C11_Witness ==
    /\ Done
    /\ resolve
    /\ resolver = "failed"
    /\ Len(available_network_frames) = 1
    /\ result.msg = DnsMessage

\* C15 as stated: the DNS bootstrap runs before the keyboard stream, the
\* output sink and the signal bridge are constructed, so a call whose resolver
\* construction failed has never subscribed to SIGWINCH.
C15_DnsBeforeConstruction ==
    resolver = "failed" =>
        /\ signals = "none"
        /\ ~keyboard_events
        /\ ~write_to_stdout

\* C15 amended: the keyboard stream, the output sink and the signal bridge
\* are constructed before the DNS bootstrap starts, so a call that fails in
\* the DNS bootstrap has already subscribed to SIGWINCH.
C15_ConstructionBeforeDns ==
    (runtime # "none" \/ resolver # "none" \/ dns_client # None) =>
        /\ signals = "subscribed"
        /\ keyboard_events
        /\ write_to_stdout

C15_Witness ==
    /\ Done
    /\ result = Err(DnsMessage)
    /\ signals = "subscribed"
    /\ keyboard_events
    /\ Len(available_network_frames) = 2

\* C16: datalink::channel is called only on candidates that are up and have
\* an address, in the first loop and in the classification loop, and the
\* first loop calls it on every such candidate.
C16_OpensOnUsableOnly ==
    /\ \A k \in 1..Len(opens) :
          \E i \in 1..Len(Candidates) :
              /\ Candidates[i].name = opens[k].iface
              /\ UpWithAddress(Candidates[i])
    /\ (~NameMissing /\ pc \notin {"select", "open"}) =>
          \A i \in 1..Len(Candidates) :
              UpWithAddress(Candidates[i]) =>
                  \E k \in 1..Len(first_pass) :
                      first_pass[k].iface = Candidates[i].name

C16_Witness ==
    /\ Returned
    /\ interface_name = None
    /\ Len(directory) = 2
    /\ ~directory[1].up
    /\ UpWithAddress(directory[2])
    /\ Len(opens) = 1
    /\ opens[1].iface = directory[2].name

\* C17: get_datalink_channel gives a channel exactly for an Ethernet channel,
\* an "Unsupported interface type" error of kind Other for any other channel,
\* and the OS error with its kind for a failure; an interface whose channel
\* is not Ethernet is not in the bundle, and when all opens of a call give a
\* non-Ethernet channel the result is the generic error.
C17_EthernetOnly ==
    /\ \A k \in 1..Len(first_pass) :
          LET raw == opens[k].raw
              r == first_pass[k].res
          IN  /\ r.ok <=> (raw.ok /\ raw.kind = "Ethernet")
              /\ r.ok <=> r.rx # None
              /\ (raw.ok /\ raw.kind # "Ethernet") =>
                    /\ r.err = Some([kind |-> "Other",
                                     msg |-> "Unsupported interface type"])
                    /\ r.err[1].kind # "PermissionDenied"
              /\ ~raw.ok => (r.err # None /\ r.err[1].kind = raw.kind)
    /\ Returned =>
          \A k \in 1..Len(opens) : \A i \in 1..Len(Bundle.network_interfaces) :
              opens[k].raw.kind = "NonEthernet" =>
                  Bundle.network_interfaces[i].name # opens[k].iface
    /\ (/\ Done
        /\ opens # <<>>
        /\ \A k \in 1..Len(opens) : opens[k].raw.kind = "NonEthernet") =>
          result = Err(NoInterfaceMessage)

C17_Witness ==
    /\ Done
    /\ interface_name = Some("eth0")
    /\ Len(opens) = 2
    /\ \A k \in 1..Len(opens) : opens[k].raw.kind = "NonEthernet"
    /\ result = Err(NoInterfaceMessage)

\* C18: the runtime and the resolver are started only after a channel was
\* kept; with zero channels get_input fails with the permission message or
\* the generic message, whatever resolve is, and never with the DNS message.
C18_ChannelsBeforeDns ==
    /\ (runtime # "none" \/ resolver # "none" \/ dns_client # None) =>
          available_network_frames # <<>>
    /\ ZeroChannels =>
          /\ result.kind = "Err"
          /\ result.msg \in {NoInterfaceMessage, PermissionMessage}
          /\ result.msg # DnsMessage
          /\ runtime = "none"
          /\ resolver = "none"

C18_Witness ==
    /\ ZeroChannels
    /\ resolve
    /\ opens # <<>>
    /\ result = Err(PermissionMessage)

\* C19: when the named interface is not in the directory, get_input has
\* opened no channel, created no signal subscription, built no output sink
\* and no keyboard stream, and started no DNS runtime.
C19_NothingAcquired ==
    NameMissing =>
        /\ opens = <<>>
        /\ first_pass = <<>>
        /\ available_network_frames = <<>>
        /\ signals = "none"
        /\ ~keyboard_events
        /\ ~write_to_stdout
        /\ runtime = "none"
        /\ resolver = "none"
        /\ dns_client = None

C19_Witness ==
    /\ Done
    /\ NameMissing
    /\ resolve
    /\ Len(directory) = 1
    /\ UpWithAddress(directory[1])
    /\ result.kind = "Err"
    /\ opens = <<>>

\* C12: once cleanup has been called, a call of on_winch that is waiting for a
\* signal (or running the callback) eventually returns, with or without a
\* signal ever arriving; this covers a call of on_winch made after cleanup,
\* the subscription existing since the bridge was constructed.
C12_CleanupUnblocks ==
    (cleanup_called /\ winch \in {"waiting", "callback"}) ~> (winch = "returned")

C12_Witness ==
    /\ cleanup_called
    /\ winch = "returned"
    /\ arrived = 0
    /\ callbacks = 0

\* C13: once KeyboardEvents::next has returned None, every later call of it
\* returns None.
C13_EndIsPermanent ==
    kbd_ended => kbd_last = "None"

====
